---- MODULE Spec2Model ----
(***************************************************************************)
(* A model of the CHIP-8 interpreter core of src/chip8/chip8.go.            *)
(*                                                                         *)
(* The Chip8 struct is the record c.  Every method of the struct is an      *)
(* operator from a struct value to a result [c, panic, beep]: the struct    *)
(* as the method leaves it, the panic that ended the call ("none" when it   *)
(* returned), and how many times the call logged "BEEP!".  A Go panic       *)
(* unwinds the call: what was assigned before the panicking statement       *)
(* stays assigned, nothing after it runs.                                   *)
(***************************************************************************)
EXTENDS Integers, Sequences, FiniteSets, TLC

VARIABLES
    c,      \* the Chip8 struct
    panic,  \* how the last call ended: "none", "UnknownOpcode", "IndexOutOfRange"
    beep,   \* how many times the last call logged "BEEP!"
    pre,    \* the struct as it was before the last call
    last,   \* the last call: [op |-> name, arg |-> its input]
    prev,   \* [pre, last, panic] of the call before the last one
    n       \* calls made since the last initialize()

vars == <<c, panic, beep, pre, last, prev, n>>

-----------------------------------------------------------------------------
(* Program constants *)

FONTSET_SIZE == 80
TWO_BYTES_SIZE == 16
MEMORY_SIZE == 4096
GFX_SIZE == 2048
PROGRAM_START == 512

(* Bounds of the model *)

\* EmulateCycle calls explored after initialize() (specification Spec)
MaxCycles == 3
\* instruction words of program the host loads at PROGRAM_START (specification Spec)
ProgLen == 3
\* decode() calls explored after initialize() (specification DecodeSpec)
MaxOps == 3

-----------------------------------------------------------------------------
(* Fixed-width arithmetic of Go's byte and uint16 *)

Byte(v) == v % 256

Uint16(v) == v % 65536

RECURSIVE BitAnd(_, _)
BitAnd(a, b) ==
    IF a = 0 \/ b = 0 THEN 0
    ELSE (a % 2) * (b % 2) + 2 * BitAnd(a \div 2, b \div 2)

RECURSIVE BitOr(_, _)
BitOr(a, b) ==
    IF a = 0 THEN b
    ELSE IF b = 0 THEN a
    ELSE (IF a % 2 = 1 \/ b % 2 = 1 THEN 1 ELSE 0) + 2 * BitOr(a \div 2, b \div 2)

RECURSIVE BitXor(_, _)
BitXor(a, b) ==
    IF a = 0 THEN b
    ELSE IF b = 0 THEN a
    ELSE ((a + b) % 2) + 2 * BitXor(a \div 2, b \div 2)

\* v >> k
Shr(v, k) == v \div (2 ^ k)

\* v << k on a byte: the bits shifted past bit 7 are lost
Shl8(v, k) == (v * (2 ^ k)) % 256

-----------------------------------------------------------------------------
(* The struct and the results of its methods *)

getChip8Fontset ==
    << 240, 144, 144, 144, 240,
        32,  96,  32,  32, 112,
       240,  16, 240, 128, 240,
       240,  16, 240,  16, 240,
       144, 144, 240,  16,  16,
       240, 128, 240,  16, 240,
       240, 128, 240, 144, 240,
       240,  16,  32,  64,  64,
       240, 144, 240, 144, 240,
       240, 144, 240,  16, 240,
       240, 144, 240, 144, 144,
       224, 144, 224, 144, 224,
       240, 128, 128, 128, 240,
       224, 144, 144, 144, 224,
       240, 128, 240, 128, 240,
       240, 128, 240, 128, 128 >>

\* the zero value of the struct, as Go allocates it
Chip8 ==
    [ V            |-> [i \in 0..(TWO_BYTES_SIZE - 1) |-> 0],
      ir           |-> 0,
      pc           |-> 0,
      sp           |-> 0,
      opcode       |-> 0,
      memory       |-> [i \in 0..(MEMORY_SIZE - 1) |-> 0],
      gfx          |-> [i \in 0..(GFX_SIZE - 1) |-> 0],
      delayedTimer |-> 0,
      soundTimer   |-> 0,
      stack        |-> [i \in 0..(TWO_BYTES_SIZE - 1) |-> 0],
      key          |-> [i \in 0..(TWO_BYTES_SIZE - 1) |-> 0],
      drawFlag     |-> FALSE ]

Returned(m) == [c |-> m, panic |-> "none", beep |-> 0]

Panicked(m, kind) == [c |-> m, panic |-> kind, beep |-> 0]

\* initialize() with its "Clear memory" loop left out: the fontset is loaded
\* over whatever the memory held
initialize_noMemoryClear(m) ==
    [ V            |-> [i \in 0..(TWO_BYTES_SIZE - 1) |-> 0],
      ir           |-> 0,
      pc           |-> PROGRAM_START,
      sp           |-> 0,
      opcode       |-> 0,
      memory       |-> [i \in 0..(MEMORY_SIZE - 1) |->
                          IF i < FONTSET_SIZE THEN getChip8Fontset[i + 1] ELSE m.memory[i]],
      gfx          |-> [i \in 0..(GFX_SIZE - 1) |-> 0],
      delayedTimer |-> 0,
      soundTimer   |-> 0,
      stack        |-> [i \in 0..(TWO_BYTES_SIZE - 1) |-> 0],
      key          |-> [i \in 0..(TWO_BYTES_SIZE - 1) |-> 0],
      drawFlag     |-> TRUE ]

initialize(m) ==
    [ V            |-> [i \in 0..(TWO_BYTES_SIZE - 1) |-> 0],
      ir           |-> 0,
      pc           |-> PROGRAM_START,
      sp           |-> 0,
      opcode       |-> 0,
      memory       |-> [i \in 0..(MEMORY_SIZE - 1) |->
                          IF i < FONTSET_SIZE THEN getChip8Fontset[i + 1] ELSE 0],
      gfx          |-> [i \in 0..(GFX_SIZE - 1) |-> 0],
      delayedTimer |-> 0,
      soundTimer   |-> 0,
      stack        |-> [i \in 0..(TWO_BYTES_SIZE - 1) |-> 0],
      key          |-> [i \in 0..(TWO_BYTES_SIZE - 1) |-> 0],
      drawFlag     |-> TRUE ]

incrementProgramCounter(m) == [m EXCEPT !.pc = Uint16(m.pc + 2)]

execute(m) == [m EXCEPT !.pc = Uint16(m.pc + 2)]

\* memory[pc]<<8 is a shift of a byte, and so is the | with memory[pc+1]
fetchWord(hi, lo) == BitOr(Shl8(hi, 8), lo)

fetch(m) ==
    IF m.pc >= MEMORY_SIZE \/ Uint16(m.pc + 1) >= MEMORY_SIZE
    THEN Panicked(m, "IndexOutOfRange")
    ELSE Returned([m EXCEPT !.opcode = fetchWord(m.memory[m.pc], m.memory[Uint16(m.pc + 1)])])

-----------------------------------------------------------------------------
(* decode(): the operand fields, then one operator per case of the switch *)

vXPos(op) == Shr(BitAnd(op, 3840), 8)

vYPos(op) == Shr(BitAnd(op, 240), 4)

nnn(op) == Uint16(BitAnd(op, 4095))

kk(op) == Byte(BitAnd(op, 255))

SetV(m, i, v) == [m EXCEPT !.V[i] = v]

\* 0x00E0 with the clearing loop writing c.memory[i] where the source writes
\* c.gfx[i]
opCLS_clearsMemory(m) ==
    Returned(incrementProgramCounter(
        [m EXCEPT !.memory = [i \in 0..(MEMORY_SIZE - 1) |->
                                 IF i < GFX_SIZE THEN 0 ELSE m.memory[i]]]))

\* 0x00E0: the assignment to drawFlag is commented out in the source
opCLS(m) ==
    Returned(incrementProgramCounter([m EXCEPT !.gfx = [i \in 0..(GFX_SIZE - 1) |-> 0]]))

\* 0x00EE: sp is a uint16, so sp-- at 0 wraps, and the read of stack[sp] panics
\* with sp already written
opRET(m) ==
    LET m1 == [m EXCEPT !.sp = Uint16(m.sp - 1)] IN
    IF m1.sp >= TWO_BYTES_SIZE
    THEN Panicked(m1, "IndexOutOfRange")
    ELSE Returned(incrementProgramCounter([m1 EXCEPT !.pc = m1.stack[m1.sp]]))

opJP(m) == Returned([m EXCEPT !.pc = nnn(m.opcode)])

\* 0x2nnn: the store into stack[sp] is the first statement; it panics at sp = 16
opCALL(m) ==
    IF m.sp >= TWO_BYTES_SIZE
    THEN Panicked(m, "IndexOutOfRange")
    ELSE Returned([m EXCEPT !.stack[m.sp] = Byte(m.pc),
                            !.sp = Uint16(m.sp + 1),
                            !.pc = nnn(m.opcode)])

Skip(m, cond) ==
    Returned(incrementProgramCounter(IF cond THEN incrementProgramCounter(m) ELSE m))

opSEbyte(m) == Skip(m, m.V[vXPos(m.opcode)] = kk(m.opcode))

opSNEbyte(m) == Skip(m, m.V[vXPos(m.opcode)] # kk(m.opcode))

opSE(m) == Skip(m, m.V[vXPos(m.opcode)] = m.V[vYPos(m.opcode)])

opSNE(m) == Skip(m, m.V[vXPos(m.opcode)] # m.V[vYPos(m.opcode)])

opLDbyte(m) ==
    Returned(incrementProgramCounter(SetV(m, vXPos(m.opcode), kk(m.opcode))))

opADDbyte(m) ==
    LET x == vXPos(m.opcode) IN
    Returned(incrementProgramCounter(SetV(m, x, Byte(m.V[x] + kk(m.opcode)))))

opLD(m) ==
    Returned(incrementProgramCounter(SetV(m, vXPos(m.opcode), m.V[vYPos(m.opcode)])))

opOR(m) ==
    LET x == vXPos(m.opcode) IN
    Returned(incrementProgramCounter(SetV(m, x, BitOr(m.V[x], m.V[vYPos(m.opcode)]))))

opAND(m) ==
    LET x == vXPos(m.opcode) IN
    Returned(incrementProgramCounter(SetV(m, x, BitAnd(m.V[x], m.V[vYPos(m.opcode)]))))

opXOR(m) ==
    LET x == vXPos(m.opcode) IN
    Returned(incrementProgramCounter(SetV(m, x, BitXor(m.V[x], m.V[vYPos(m.opcode)]))))

\* 0x8xy4: VF is cleared first, the carry test reads the registers after that,
\* and the addend is V[vYPos >> 4], which is V[0] for every y
opADD(m) ==
    LET x  == vXPos(m.opcode)
        y  == vYPos(m.opcode)
        m1 == SetV(m, 15, 0)
        m2 == IF m1.V[x] > 255 - m1.V[y] THEN SetV(m1, 15, 1) ELSE m1
        m3 == SetV(m2, x, Byte(m2.V[x] + m2.V[Shr(y, 4)]))
    IN  Returned(incrementProgramCounter(m3))

\* 0x8xy5: the test is the one of 0x8xy4
opSUB(m) ==
    LET x  == vXPos(m.opcode)
        y  == vYPos(m.opcode)
        m1 == SetV(m, 15, 0)
        m2 == IF m1.V[x] > 255 - m1.V[y] THEN SetV(m1, 15, 1) ELSE m1
        m3 == SetV(m2, x, Byte(m2.V[x] - m2.V[y]))
    IN  Returned(incrementProgramCounter(m3))

opSHR(m) ==
    LET x  == vXPos(m.opcode)
        m1 == SetV(m, 15, 0)
        m2 == IF BitAnd(m1.V[x], 1) = 1 THEN SetV(m1, 15, 1) ELSE m1
        m3 == SetV(m2, x, Shr(m2.V[x], 1))
    IN  Returned(incrementProgramCounter(m3))

opSUBN(m) ==
    LET x  == vXPos(m.opcode)
        y  == vYPos(m.opcode)
        m1 == SetV(m, 15, 0)
        m2 == IF m1.V[y] > m1.V[x] THEN SetV(m1, 15, 1) ELSE m1
        m3 == SetV(m2, x, Byte(m2.V[y] - m2.V[x]))
    IN  Returned(incrementProgramCounter(m3))

\* 0x8xyE: the bit tested is the top bit of Vy
opSHL(m) ==
    LET x  == vXPos(m.opcode)
        y  == vYPos(m.opcode)
        m1 == SetV(m, 15, 0)
        m2 == IF Shr(m1.V[y], 7) = 1 THEN SetV(m1, 15, 1) ELSE m1
        m3 == SetV(m2, x, Shl8(m2.V[x], 1))
    IN  Returned(incrementProgramCounter(m3))

opLDI(m) == Returned(incrementProgramCounter([m EXCEPT !.ir = nnn(m.opcode)]))

opJPV0(m) == Returned([m EXCEPT !.pc = Uint16(nnn(m.opcode) + m.V[0])])

\* what rand.Intn(255) can return
RandDraws == 0..254

\* the values of rand.Intn(255)%0xFF & int(opcode&0x00FF) over the draws
RandMasked(op) == { Byte(BitAnd(r % 255, BitAnd(op, 255))) : r \in RandDraws }

\* 0xCxkk, v being the masked draw
opRND(m, v) ==
    Returned(incrementProgramCounter(SetV(m, vXPos(m.opcode), v)))

\* the cases 0xD000, 0xE000 and 0xF000 have no statements
opTODO(m) == Returned(m)

opUnknown(m) == Panicked(m, "UnknownOpcode")

family0(m) ==
    LET sub == BitAnd(m.opcode, 15) IN
    IF sub = 0 THEN opCLS(m)
    ELSE IF sub = 14 THEN opRET(m)
    ELSE opUnknown(m)

family8(m) ==
    LET sub == BitAnd(m.opcode, 15) IN
    CASE sub = 0  -> opLD(m)
      [] sub = 1  -> opOR(m)
      [] sub = 2  -> opAND(m)
      [] sub = 3  -> opXOR(m)
      [] sub = 4  -> opADD(m)
      [] sub = 5  -> opSUB(m)
      [] sub = 6  -> opSHR(m)
      [] sub = 7  -> opSUBN(m)
      [] sub = 14 -> opSHL(m)
      [] OTHER    -> opUnknown(m)

dispatch(m, v) ==
    LET fam == BitAnd(m.opcode, 61440) IN
    CASE fam = 0     -> family0(m)
      [] fam = 4096  -> opJP(m)
      [] fam = 8192  -> opCALL(m)
      [] fam = 12288 -> opSEbyte(m)
      [] fam = 16384 -> opSNEbyte(m)
      [] fam = 20480 -> opSE(m)
      [] fam = 24576 -> opLDbyte(m)
      [] fam = 28672 -> opADDbyte(m)
      [] fam = 32768 -> family8(m)
      [] fam = 36864 -> opSNE(m)
      [] fam = 40960 -> opLDI(m)
      [] fam = 45056 -> opJPV0(m)
      [] fam = 49152 -> opRND(m, v)
      [] fam = 53248 -> opTODO(m)
      [] fam = 57344 -> opTODO(m)
      [] fam = 61440 -> opTODO(m)
      [] OTHER       -> opUnknown(m)

\* the timer statements with the decrement of the sound timer left out: the
\* beep is logged at 1 and the timer stays at 1
updateTimers_logOnly(m) ==
    LET m1 == IF m.delayedTimer > 0
              THEN [m EXCEPT !.delayedTimer = m.delayedTimer - 1] ELSE m
    IN  IF m1.soundTimer > 0 /\ m1.soundTimer = 1
        THEN [c |-> m1, panic |-> "none", beep |-> 1]
        ELSE Returned(m1)

\* the timer statements that end decode(): the sound timer moves only from 1
updateTimers(m) ==
    LET m1 == IF m.delayedTimer > 0
              THEN [m EXCEPT !.delayedTimer = m.delayedTimer - 1] ELSE m
    IN  IF m1.soundTimer > 0 /\ m1.soundTimer = 1
        THEN [c |-> [m1 EXCEPT !.soundTimer = m1.soundTimer - 1],
              panic |-> "none", beep |-> 1]
        ELSE Returned(m1)

decode(m, v) ==
    LET d == dispatch(m, v) IN
    IF d.panic # "none" THEN d ELSE updateTimers(d.c)

EmulateCycle(m, v) ==
    LET f == fetch(m) IN
    IF f.panic # "none" THEN f
    ELSE LET d == decode(f.c, v) IN
         IF d.panic # "none" THEN d
         ELSE [d EXCEPT !.c = execute(d.c)]

-----------------------------------------------------------------------------
(* The calls a host in package chip8 makes on one struct *)

\* what the draw of 0xCxkk can leave in Vx; no draw for any other opcode
Draws(op) == IF BitAnd(op, 61440) = 49152 THEN RandMasked(op) ELSE {0}

\* instruction words the host loads as program:
\* 0000 00E0 00EE 0001 1300 23A0 6001 F055
ProgWords == {0, 224, 238, 1, 4864, 9120, 24577, 61525}

\* opcodes the host hands to decode()
Opcodes ==
    { 224, 238, 16, 1,                      \* 00E0 00EE 0010 0001
      4864, 8960,                           \* 1300 2300
      12289, 16385, 20496, 20497,           \* 3001 4001 5010 5011
      24577, 24831, 24833, 24834, 28673,    \* 6001 60FF 6101 6102 7001
      32784, 32785, 32786, 32787,           \* 8010 8011 8012 8013
      32788, 32789, 32790, 32791,           \* 8014 8015 8016 8017
      32798, 32792, 33044,                  \* 801E 8018 8114
      36880, 41251, 45824, 49155,           \* 9010 A123 B300 C003
      53265, 57502, 57505, 57344,           \* D011 E09E E0A1 E000
      61447, 61491, 61525,                  \* F007 F033 F055
      61440, 65535 }                        \* F000 FFFF

\* target of the nested CALLs of CallSpec: 3A0
CallTargets == {928}

\* the fields of the struct a call is compared on; memory and gfx are written
\* by no call but initialize() and the clear of 0x00E0
Snapshot(m) ==
    [ V |-> m.V, ir |-> m.ir, pc |-> m.pc, sp |-> m.sp, opcode |-> m.opcode,
      delayedTimer |-> m.delayedTimer, soundTimer |-> m.soundTimer,
      stack |-> m.stack, key |-> m.key, drawFlag |-> m.drawFlag ]

Record(res, call) ==
    /\ c' = res.c
    /\ panic' = res.panic
    /\ beep' = res.beep
    /\ pre' = Snapshot(c)
    /\ last' = call
    /\ prev' = [pre |-> pre, last |-> last, panic |-> panic]

NoCall == [pre |-> Snapshot(Chip8), last |-> [op |-> "new", arg |-> 0], panic |-> "none"]

RECURSIVE Store(_, _, _)
\* the host's copy of the first k words of prog to memory[0x200..], high byte first
Store(mem, prog, k) ==
    IF k = 0 THEN mem
    ELSE [Store(mem, prog, k - 1) EXCEPT
             ![PROGRAM_START + 2 * (k - 1)] = prog[k - 1] \div 256,
             ![PROGRAM_START + 2 * (k - 1) + 1] = prog[k - 1] % 256]

\* a machine the host has initialized and loaded ProgLen words of program into
Loaded(prog) ==
    LET m == initialize(Chip8) IN [m EXCEPT !.memory = Store(m.memory, prog, ProgLen)]

Fresh ==
    /\ panic = "none"
    /\ beep = 0
    /\ pre = Snapshot(Chip8)
    /\ last = [op |-> "initialize", arg |-> 0]
    /\ prev = NoCall
    /\ n = 0

Init ==
    /\ \E prog \in [0..(ProgLen - 1) -> ProgWords] : c = Loaded(prog)
    /\ Fresh

Initialize ==
    /\ Record(Returned(initialize(c)), [op |-> "initialize", arg |-> 0])
    /\ n' = 0

Cycle ==
    /\ n < MaxCycles
    /\ \E v \in Draws(fetch(c).c.opcode) :
           Record(EmulateCycle(c, v), [op |-> "EmulateCycle", arg |-> 0])
    /\ n' = n + 1

\* the host sets c.opcode and calls decode()
Decode(op) ==
    /\ \E v \in Draws(op) :
           Record(decode([c EXCEPT !.opcode = op], v), [op |-> "decode", arg |-> op])
    /\ n' = n + 1

Next == Initialize \/ Cycle

Spec == Init /\ [][Next]_vars

DecodeInit == c = initialize(Chip8) /\ Fresh

DecodeNext == \E op \in Opcodes : n < MaxOps /\ Decode(op)

DecodeSpec == DecodeInit /\ [][DecodeNext]_vars

\* nested CALLs explored (specification CallSpec)
MaxCalls == 17
\* instructions the host may run before the nested CALLs (specification CallSpec)
MaxPrelude == 2

\* what the host runs before the CALLs: 60FF 6101 6F01 12A0
PreludeOps == {24831, 24833, 28417, 4768}

CallNext ==
    \/ \E op \in PreludeOps : n < MaxPrelude /\ Decode(op)
    \/ \E t \in CallTargets : n < MaxPrelude + MaxCalls /\ Decode(8192 + t)

CallSpec == DecodeInit /\ [][CallNext]_vars

\* values the host gives a timer before a step
TimerValues == {0, 1, 2}

\* the keys the host holds down before a step: none, or key 3
PressedKeys == {{}, {3}}

\* instruction words of the programs of HostSpec: 00E0 F00A
HostWords == {224, 61450}

\* the keypad with exactly the keys of ks held down
Keypad(ks) == [i \in 0..(TWO_BYTES_SIZE - 1) |-> IF i \in ks THEN 1 ELSE 0]

\* the host sets the machine up before the first step: it assigns the timers,
\* the redraw flag and the keypad
Write(d, s, f, ks) ==
    /\ Record(Returned([c EXCEPT
                  !.delayedTimer = d,
                  !.soundTimer = s,
                  !.drawFlag = f,
                  !.key = Keypad(ks)]),
              [op |-> "write", arg |-> 0])
    /\ n' = n

\* the host supplies fresh keypad state between two steps
Press(ks) ==
    /\ Record(Returned([c EXCEPT !.key = Keypad(ks)]), [op |-> "press", arg |-> 0])
    /\ n' = n

HostInit ==
    /\ \E prog \in [0..(ProgLen - 1) -> HostWords] : c = Loaded(prog)
    /\ Fresh

HostNext ==
    \/ Initialize
    \/ Cycle
    \/ \E d \in TimerValues, s \in TimerValues, f \in BOOLEAN, ks \in PressedKeys :
           last.op # "write" /\ n = 0 /\ Write(d, s, f, ks)
    \/ \E ks \in PressedKeys :
           last.op = "EmulateCycle" /\ n < MaxCycles /\ Press(ks)

HostSpec == HostInit /\ [][HostNext]_vars

\* decode() calls explored after initialize() (specification RndSpec)
MaxRnd == 2

\* the random instructions the host hands to decode(): C0FF C10F C000
RndOps == {49407, 49423, 49152}

RndNext == \E op \in RndOps : n < MaxRnd /\ Decode(op)

RndSpec == DecodeInit /\ [][RndNext]_vars

-----------------------------------------------------------------------------
(* Vocabulary of the claims *)

Family(op) == op \div 4096

Low4(op) == op % 16

Low8(op) == op % 256

X(op) == (op \div 256) % 16

Y(op) == (op \div 16) % 16

\* the 16-bit word the two bytes at pc spell, high byte first
WordAt(mem, pc) == mem[pc] * 256 + mem[pc + 1]

\* the instruction patterns of the opcode table
Defined(op) ==
    \/ op \in {224, 238}
    \/ Family(op) \in {1, 2, 3, 4, 6, 7, 10, 11, 12, 13}
    \/ Family(op) \in {5, 9} /\ Low4(op) = 0
    \/ Family(op) = 8 /\ Low4(op) \in {0, 1, 2, 3, 4, 5, 6, 7, 14}
    \/ Family(op) = 14 /\ Low8(op) \in {158, 161}
    \/ Family(op) = 15 /\ Low8(op) \in {7, 10, 21, 24, 30, 41, 51, 85, 101}

\* defined instructions that are no jump, call, return, skip or key wait
FallsThrough(op) ==
    \/ op = 224
    \/ Family(op) \in {6, 7, 10, 12, 13}
    \/ Family(op) = 8 /\ Low4(op) \in {0, 1, 2, 3, 4, 5, 6, 7, 14}
    \/ Family(op) = 15 /\ Low8(op) \in {7, 21, 24, 30, 41, 51, 85, 101}

Cycled == last.op = "EmulateCycle"

Decoded == last.op = "decode"

\* the call returned: it did not panic
Completed == panic = "none"

-----------------------------------------------------------------------------
(* Claims *)

\* C1: the fetch of a step gives the instruction word memory[PC]*256 +
\* memory[PC+1], for every PC with both bytes inside memory.
C1_FetchBigEndian ==
    (Cycled /\ pre.pc + 1 < MEMORY_SIZE) => c.opcode = WordAt(c.memory, pre.pc)

\* C2: a complete step on an instruction that is no jump, call, return or skip
\* leaves PC exactly 2 greater than before the step.
C2_NoDoubleAdvance ==
    (Cycled /\ Completed /\ FallsThrough(WordAt(c.memory, pre.pc)))
        => c.pc = pre.pc + 2

\* C3: CALL at address p in [0x200, 0xFFE) and then the matching RET leave PC
\* at p+2 and the stack pointer at its value before the CALL.
C3_CallThenReturn ==
    ( /\ Decoded /\ Completed /\ last.arg = 238
      /\ prev.last.op = "decode" /\ prev.panic = "none" /\ Family(prev.last.arg) = 2
      /\ prev.pre.pc >= PROGRAM_START /\ prev.pre.pc < 4094 )
        => (c.pc = prev.pre.pc + 2 /\ c.sp = prev.pre.sp)

\* C4: from stack pointer 0, 16 nested CALLs all succeed and leave the stack
\* pointer at 16; a 17th CALL, with the stack pointer at 16, fails on the full
\* stack and leaves PC, stack pointer, stack, registers and timers as they
\* were.  Step by step: a step on a CALL word below 16 succeeds and pushes,
\* and one at 16 fails and changes none of them.
C4_NestedCallSteps ==
    (Cycled /\ Family(WordAt(c.memory, pre.pc)) = 2) =>
        /\ pre.sp < TWO_BYTES_SIZE => (Completed /\ c.sp = pre.sp + 1)
        /\ pre.sp = TWO_BYTES_SIZE =>
              /\ ~Completed
              /\ c.pc = pre.pc
              /\ c.sp = pre.sp
              /\ c.stack = pre.stack
              /\ c.V = pre.V
              /\ c.delayedTimer = pre.delayedTimer
              /\ c.soundTimer = pre.soundTimer

\* What decode() does when it is handed a CALL directly (CallSpec): below 16 it
\* pushes; at 16 the store into the stack panics before anything is written.
CallChainOnDecode ==
    (Decoded /\ Family(last.arg) = 2) =>
        /\ pre.sp < TWO_BYTES_SIZE => (Completed /\ c.sp = pre.sp + 1)
        /\ pre.sp = TWO_BYTES_SIZE =>
              /\ panic = "IndexOutOfRange"
              /\ c.pc = pre.pc
              /\ c.sp = pre.sp
              /\ c.stack = pre.stack
              /\ c.V = pre.V
              /\ c.delayedTimer = pre.delayedTimer
              /\ c.soundTimer = pre.soundTimer

\* decode() has panicked on a 17th nested CALL, the stack full of return bytes
CallChainFull ==
    /\ Decoded /\ Family(last.arg) = 2
    /\ pre.sp = TWO_BYTES_SIZE
    /\ ~Completed
    /\ \A i \in 1..(TWO_BYTES_SIZE - 1) : c.stack[i] # 0
    /\ c.V[0] = 255

\* C5: RET with the stack pointer at 0 fails and leaves the stack pointer at 0
\* and PC unchanged.
C5_ReturnUnderflow ==
    (Cycled /\ pre.sp = 0 /\ WordAt(c.memory, pre.pc) = 238)
        => (~Completed /\ c.sp = 0 /\ c.pc = pre.pc)

\* C6: in every state reachable from initialize() by steps, failed ones
\* included, the stack pointer is within 0..16.
C6_StackPointerRange == c.sp \in 0..TWO_BYTES_SIZE

\* C7: an opcode word matching no defined pattern ends the decode in an
\* unknown-opcode failure, PC and the registers untouched.
C7_UnknownOpcodeFails ==
    (Decoded /\ ~Defined(last.arg))
        => (panic = "UnknownOpcode" /\ c.pc = pre.pc /\ c.V = pre.V)

\* C8: 0x8xy4 sets Vx to (Vx + Vy) mod 256 and VF to 1 exactly when Vx + Vy
\* exceeds 255, on the values before the instruction (x other than F).
C8_AddCarry ==
    (Decoded /\ Family(last.arg) = 8 /\ Low4(last.arg) = 4 /\ X(last.arg) # 15)
        => /\ c.V[X(last.arg)] = (pre.V[X(last.arg)] + pre.V[Y(last.arg)]) % 256
           /\ c.V[15] = IF pre.V[X(last.arg)] + pre.V[Y(last.arg)] > 255 THEN 1 ELSE 0

\* C9: 0x8xy5 sets VF to 1 exactly when Vx >= Vy and Vx to (Vx - Vy) mod 256,
\* on the values before the instruction (x other than F).
C9_SubNotBorrow ==
    (Decoded /\ Family(last.arg) = 8 /\ Low4(last.arg) = 5 /\ X(last.arg) # 15)
        => /\ c.V[X(last.arg)] = (pre.V[X(last.arg)] - pre.V[Y(last.arg)]) % 256
           /\ c.V[15] = IF pre.V[X(last.arg)] >= pre.V[Y(last.arg)] THEN 1 ELSE 0

\* C10: 0x8xy7 sets VF to 1 exactly when Vy >= Vx, equality included, and Vx
\* to (Vy - Vx) mod 256, on the values before the instruction (x other than F).
C10_SubnNotBorrow ==
    (Decoded /\ Family(last.arg) = 8 /\ Low4(last.arg) = 7 /\ X(last.arg) # 15)
        => /\ c.V[X(last.arg)] = (pre.V[Y(last.arg)] - pre.V[X(last.arg)]) % 256
           /\ c.V[15] = IF pre.V[Y(last.arg)] >= pre.V[X(last.arg)] THEN 1 ELSE 0

\* C11: 0x8xyE sets VF to the most-significant bit Vx had before the shift,
\* whatever Vy holds, and Vx to (Vx * 2) mod 256 (x other than F).
C11_ShlFlag ==
    (Decoded /\ Family(last.arg) = 8 /\ Low4(last.arg) = 14 /\ X(last.arg) # 15)
        => /\ c.V[15] = pre.V[X(last.arg)] \div 128
           /\ c.V[X(last.arg)] = (pre.V[X(last.arg)] * 2) % 256

\* a timer after one tick: one less when it is nonzero, zero when it is zero
Ticked(t) == IF t > 0 THEN t - 1 ELSE 0

\* C12: every completed step takes one from the delay timer when it is nonzero
\* and one from the sound timer when it is nonzero, and leaves a zero timer at
\* zero (so a sound timer of n reaches 0 after n completed steps).
C12_TimersTick ==
    (Cycled /\ Completed)
        => /\ c.delayedTimer = Ticked(pre.delayedTimer)
           /\ c.soundTimer = Ticked(pre.soundTimer)

\* C13: a completed step with the sound timer at 1 leaves it at 0 and logs the
\* beep exactly once; a step with the sound timer at 0 logs no beep.
C13_BeepEdge ==
    /\ (Cycled /\ Completed /\ pre.soundTimer = 1) => (c.soundTimer = 0 /\ beep = 1)
    /\ (Cycled /\ pre.soundTimer = 0) => (c.soundTimer = 0 /\ beep = 0)

\* two completed steps in a row, the first from sound timer 1 and the second
\* from sound timer 0
C13_BeepThenSilence ==
    /\ Cycled /\ Completed
    /\ prev.last.op = "EmulateCycle" /\ prev.panic = "none"
    /\ prev.pre.soundTimer = 1
    /\ pre.soundTimer = 0
    /\ beep = 0

C15_JumpExact ==
    (Cycled /\ Completed /\ Family(WordAt(c.memory, pre.pc)) = 1)
        => c.pc = WordAt(c.memory, pre.pc) % 4096

\* C16: a completed step on the word 0x00E0 leaves every cell of the display
\* buffer at 0 and the redraw flag true, whatever the flag was before.
C16_ClearSetsRedraw ==
    (Cycled /\ Completed /\ WordAt(c.memory, pre.pc) = 224)
        => /\ \A i \in 0..(GFX_SIZE - 1) : c.gfx[i] = 0
           /\ c.drawFlag = TRUE

\* bit b of a sprite row, the most-significant bit being the leftmost pixel
RowBit(row, b) == Shr(row, 7 - b) % 2

\* the display cells that a draw of opcode op sets on a clear buffer, with the
\* registers and I of m and the memory mem: n rows read from mem[I], drawn at
\* column Vx, row Vy, wrapped at the edges
SpriteCells(m, mem, op) ==
    { ((m.V[X(op)] + rb[2]) % 64) + 64 * ((m.V[Y(op)] + rb[1]) % 32) :
        rb \in { q \in (0..(Low4(op) - 1)) \X (0..7) :
                   RowBit(mem[m.ir + q[1]], q[2]) = 1 } }

\* C17: on a clear display buffer, a first 0xDxyn draw of a sprite with a set
\* bit sets the sprite's pixels and leaves VF=0; the same draw again, with the
\* same I, Vx and Vy, returns every pixel to unset and leaves VF=1.
C17_DrawTwice ==
    /\ ( /\ Decoded /\ n = 1 /\ Family(last.arg) = 13
         /\ SpriteCells(pre, c.memory, last.arg) # {} )
           => /\ \A i \in 0..(GFX_SIZE - 1) :
                     (c.gfx[i] # 0) <=> (i \in SpriteCells(pre, c.memory, last.arg))
              /\ c.V[15] = 0
    /\ ( /\ Decoded /\ n = 2 /\ Family(last.arg) = 13
         /\ prev.last = last /\ prev.panic = "none"
         /\ SpriteCells(pre, c.memory, last.arg) # {} )
           => /\ \A i \in 0..(GFX_SIZE - 1) : c.gfx[i] = 0
              /\ c.V[15] = 1

\* the keys held down on the keypad k
Pressed(k) == { i \in 0..(TWO_BYTES_SIZE - 1) : k[i] # 0 }

\* C18: a step on the word 0xFx0A does not fail; with no key held down it
\* leaves PC at the address of the instruction, and with a key held down it
\* sets Vx to the index of a held key and moves PC past the instruction.
C18_KeyWaitBlocks ==
    ( /\ Cycled
      /\ Family(WordAt(c.memory, pre.pc)) = 15
      /\ Low8(WordAt(c.memory, pre.pc)) = 10 )
        => /\ Completed
           /\ Pressed(pre.key) = {} => c.pc = pre.pc
           /\ Pressed(pre.key) # {} =>
                  /\ c.V[X(WordAt(c.memory, pre.pc))] \in Pressed(pre.key)
                  /\ c.pc = pre.pc + 2

MaskedBytes(mask) == { BitAnd(r, mask) : r \in 0..255 }

\* C20: 0xCxkk sets Vx to r AND kk for a byte r drawn from the whole range
\* 0..255: the values the instruction can leave in Vx are exactly the r AND kk
\* for r in 0..255 (0xFF among them when kk = 0xFF).
C20_RandWholeByte ==
    (Decoded /\ Family(last.arg) = 12)
        => /\ c.V[X(last.arg)] \in MaskedBytes(Low8(last.arg))
           /\ Draws(last.arg) = MaskedBytes(Low8(last.arg))

====
